---- MODULE Spec2Model ----
(***************************************************************************)
(* libdistmesh: the relaxation loop of distmesh::distmesh, the unique-bar  *)
(* extraction, the boundary projection and distmesh::boundEdges.           *)
(*                                                                         *)
(* Coordinates are integers in units of a tenth of the initial point       *)
(* distance used by the runs below.  Row and vertex indices keep the       *)
(* 0-based values of the code; TLA+ sequences are 1-based, so row k of an  *)
(* array a is a[k + 1].                                                    *)
(***************************************************************************)
EXTENDS Integers, Sequences, FiniteSets, TLC

VARIABLES
    \* distmesh::distmesh
    pc,                              \* position in distmesh::distmesh
    distanceFunction,                \* the distance field of the run
    initialPointDistance,            \* h0
    boundingBox,                     \* <<min, max>> per dimension
    fixedPoints,                     \* the rows of fixedPoints
    points,                          \* the point array
    triangulation,                   \* the simplex array
    edgeIndices,                     \* the edge array of the loop
    retriangulationCriterionBuffer,  \* points at the last retriangulation
    stopCriterionBuffer,             \* points before the last integration
    step,                            \* loop counter
    exit,                            \* how the loop was left
    result,                          \* the returned tuple
    \* find_unique_bars and distmesh::boundEdges
    bpc,                             \* position of the extraction run
    nodes,                           \* boundEdges: nodes
    simplices,                       \* the simplex array given to both
    bar_indices,                     \* find_unique_bars: returned array
    triangulationEdgeIndices,        \* boundEdges: edgeIndices
    boundaryEdges,                   \* boundEdges: the std::vector
    boundary                         \* boundEdges: returned array

relaxVars == <<pc, distanceFunction, initialPointDistance, boundingBox,
               fixedPoints, points, triangulation, edgeIndices,
               retriangulationCriterionBuffer, stopCriterionBuffer, step,
               exit, result>>

extractVars == <<bpc, nodes, simplices, bar_indices,
                 triangulationEdgeIndices, boundaryEdges, boundary>>

vars == <<relaxVars, extractVars>>

----------------------------------------------------------------------------
(* Bounds and sizes *)

\* boundingBox.cols(): the space dimension of every run modelled here
dimension == 2

\* largest number of rows of a simplex array handed to the extraction
MaxSimplices == 3

Min(S) == CHOOSE x \in S : \A y \in S : x <= y

Abs(x) == IF x < 0 THEN -x ELSE x

\* the two indices of an edge row, as a set
Unordered(e) == {e[1], e[2]}

\* the unordered pairs at positions i and (i + 1) mod (D + 1) of every row
SimplexEdges(tri) ==
    { {tri[t][i], tri[t][(i % (dimension + 1)) + 1]} :
        t \in 1..Len(tri), i \in 1..(dimension + 1) }

----------------------------------------------------------------------------
(* find_unique_bars *)

\* a variant that stores the pair as it stands in the simplex row
BarAsStored(simplex, i) ==
    <<simplex[i + 1], simplex[((i + 1) % (dimension + 1)) + 1]>>

\* the bar of positions i and (i + 1) % (cols + 1), larger index first
Bar(simplex, i) ==
    LET a == simplex[i + 1]
        b == simplex[((i + 1) % (dimension + 1)) + 1]
    IN  IF a > b THEN <<a, b>> ELSE <<b, a>>

\* std::set<std::array<index, 2>> after the double loop
bar_indices_set(tri) ==
    { Bar(tri[t], i) : t \in 1..Len(tri), i \in 0..dimension }

\* operator< of std::array: lexicographic
ArrayLess(x, y) == x[1] < y[1] \/ (x[1] = y[1] /\ x[2] < y[2])

RECURSIVE SetToArray(_)
\* iteration over the std::set, in its order, into the rows of the array
SetToArray(S) ==
    IF S = {} THEN <<>>
    ELSE LET m == CHOOSE x \in S : \A y \in S \ {x} : ArrayLess(x, y)
         IN  <<m>> \o SetToArray(S \ {m})

find_unique_bars(tri) == SetToArray(bar_indices_set(tri))

----------------------------------------------------------------------------
(* distmesh::boundEdges *)

\* row of the edge array holding the unordered pair {a, b}
EdgeRow(edges, a, b) ==
    (CHOOSE k \in 1..Len(edges) : {edges[k][1], edges[k][2]} = {a, b}) - 1

\* for each simplex, the rows of its dimension + 1 edges in the edge array
getTriangulationEdgeIndices(tri, edges) ==
    [t \in 1..Len(tri) |->
        [i \in 1..(dimension + 1) |->
            EdgeRow(edges, tri[t][i], tri[t][(i % (dimension + 1)) + 1])]]

RECURSIVE EraseFirst(_, _)
\* std::find followed by erase of the iterator, when it is not end()
EraseFirst(vec, x) ==
    IF vec = <<>> THEN <<>>
    ELSE IF Head(vec) = x THEN Tail(vec)
    ELSE <<Head(vec)>> \o EraseFirst(Tail(vec), x)

\* a variant that flips membership each time the index comes again
RepeatedEdgeToggle(vec, edgeIndex) ==
    IF \E k \in 1..Len(vec) : vec[k] = edgeIndex
    THEN EraseFirst(vec, edgeIndex)
    ELSE Append(vec, edgeIndex)

\* the branch taken when the set already holds the index
RepeatedEdge(vec, edgeIndex) == EraseFirst(vec, edgeIndex)

RECURSIVE BoundaryLoop(_, _, _, _)
\* the double loop over (triangle, edge); k counts the incidences done
BoundaryLoop(ei, k, uniqueEdges, vec) ==
    IF k = Len(ei) * (dimension + 1) THEN vec
    ELSE LET edgeIndex ==
                 ei[(k \div (dimension + 1)) + 1][(k % (dimension + 1)) + 1]
         IN  IF edgeIndex \in uniqueEdges
             THEN BoundaryLoop(ei, k + 1, uniqueEdges,
                               RepeatedEdge(vec, edgeIndex))
             ELSE BoundaryLoop(ei, k + 1, uniqueEdges \cup {edgeIndex},
                               Append(vec, edgeIndex))

\* (edgeIndices - b).square().minCoeff(&row, &col): the first minimum in
\* column-major order, as <<row, col>> (1-based)
MinCoeffLocation(ei, b) ==
    LET cells == { <<t, i>> : t \in 1..Len(ei), i \in 1..(dimension + 1) }
        sq(c) == (ei[c[1]][c[2]] - b) * (ei[c[1]][c[2]] - b)
        least == { c \in cells : \A d \in cells : sq(c) <= sq(d) }
        col   == Min({ c[2] : c \in least })
        row   == Min({ c[1] : c \in { d \in least : d[2] = col } })
    IN  <<row, col>>

\* one pass of the 2-D orientation loop for the entry b of boundary
OrientedEntry(nds, tri, edges, ei, b) ==
    LET elementIndex == MinCoeffLocation(ei, b)[1]
        others == { n \in 1..(dimension + 1) :
                      /\ tri[elementIndex][n] # edges[b + 1][1]
                      /\ tri[elementIndex][n] # edges[b + 1][2] }
        nodeIndex == IF others = {} THEN 1 ELSE Min(others)
        p0 == nds[edges[b + 1][1] + 1]
        p1 == nds[edges[b + 1][2] + 1]
        p2 == nds[tri[elementIndex][nodeIndex] + 1]
        v1 == <<p1[1] - p0[1], p1[2] - p0[2]>>
        v2 == <<p2[1] - p1[1], p2[2] - p1[2]>>
    IN  IF v1[1] * v2[2] - v1[2] * v2[1] < 0 THEN b * (-1) ELSE b

\* the array returned by boundEdges, from the std::vector vec
OrientedBoundary(nds, tri, edges, ei, vec) ==
    [k \in 1..Len(vec) |->
        IF dimension = 2
        THEN OrientedEntry(nds, tri, edges, ei, vec[k])
        ELSE vec[k]]

----------------------------------------------------------------------------
(* Constants of the relaxation *)

\* constants::maxSteps, the iteration cap
maxSteps == 3

\* constants::retriangulationThreshold, as its inverse (the value is 1/10)
retriangulationThresholdInverse == 10

\* constants::pointsMovementThreshold, as its inverse (the value is 1/1000)
pointsMovementThresholdInverse == 1000

\* constants::geometryEvaluationThreshold, as its inverse (1/1000)
geometryEvaluationThresholdInverse == 1000

\* settings::general_precision, as its inverse (1/1000)
generalPrecisionInverse == 1000

\* INFINITY of the retriangulation buffer: above every coordinate
INFINITY == 1000

\* 1 / sqrt(std::numeric_limits<real>::epsilon()), in steps per unit of
\* initial_edge_length / 10: the finite-difference step is far below 1
finiteDifferenceInverse == 1000

\* largest number of grid points the thinning draw rejects
MaxRejected == 1

----------------------------------------------------------------------------
(* Distance fields (the Functional distanceFunction)                       *)
(*   plane: d(p) = sign * p[axis] - offset                                 *)
(*   kink : the same up to d = 2, and twice as steep beyond it             *)

DistanceFields ==
    { [kind |-> "plane", axis |-> 1, sign |-> 1,  offset |-> 10],
      [kind |-> "kink",  axis |-> 1, sign |-> 1,  offset |-> 10],
      [kind |-> "plane", axis |-> 1, sign |-> 1,  offset |-> -5],
      [kind |-> "plane", axis |-> 2, sign |-> -1, offset |-> 0] }

\* k * d(q / k): the field at the point q / k, scaled by k
DistanceScaled(f, q, k) ==
    LET t == f.sign * q[f.axis] - k * f.offset
    IN  IF f.kind = "plane" \/ t <= 2 * k THEN t ELSE 2 * t - 2 * k

\* distance_function(p)
Distance(f, p) == DistanceScaled(f, p, 1)

----------------------------------------------------------------------------
(* create_point_list and the fixed-point prefix *)

\* max_points_per_dimension(dim, 0)
max_points_per_dimension(box, h0, dim) ==
    1 + ((box[dim][2] - box[dim][1]) \div h0)

\* max_point_count
max_point_count(box, h0) ==
    max_points_per_dimension(box, h0, 1) * max_points_per_dimension(box, h0, 2)

\* same_value_count when the loop reaches dim
same_value_count(box, h0, dim) ==
    IF dim = 1 THEN 1 ELSE max_points_per_dimension(box, h0, 1)

\* row point (0-based) of initial_points
initial_point(box, h0, point) ==
    [dim \in 1..dimension |->
        box[dim][1] + h0 * ((point \div same_value_count(box, h0, dim))
                              % max_points_per_dimension(box, h0, dim))]

\* initial_points: the evenly distributed grid
initial_points(box, h0) ==
    IF max_point_count(box, h0) <= 0 THEN <<>>
    ELSE [k \in 1..max_point_count(box, h0) |-> initial_point(box, h0, k - 1)]

\* the test of the rejection loop: d < general_precision * h0
InsideRegion(f, h0, p) == Distance(f, p) * generalPrecisionInverse < h0

\* inside_points: the grid points that pass the test, in order
inside_points(f, h0, box) ==
    SelectSeq(initial_points(box, h0), LAMBDA p : InsideRegion(f, h0, p))

RECURSIVE KeepRows(_, _, _)
\* the rows of arr, from row k on, whose 1-based position is in keep
KeepRows(arr, keep, k) ==
    IF k > Len(arr) THEN <<>>
    ELSE (IF k \in keep THEN <<arr[k]>> ELSE <<>>) \o KeepRows(arr, keep, k + 1)

\* final_points for every outcome of the random draws: a point is kept when
\* its draw is below (propability_norm / propability)^D, so a point of
\* least edge_length_function value is always kept
create_point_list(f, h0, box) ==
    LET inside == inside_points(f, h0, box)
        n      == Len(inside)
    IN  { KeepRows(inside, keep, 1) :
            keep \in { K \in SUBSET (1..n) :
                         /\ Cardinality((1..n) \ K) <= MaxRejected
                         /\ n > 0 => K # {} } }

\* createInitialPoints: the fixed points, then the sampled points
createInitialPoints(f, h0, box, fixed) ==
    { fixed \o sampled : sampled \in create_point_list(f, h0, box) }

----------------------------------------------------------------------------
(* The triangulator (external): some simplex array over the point rows     *)

\* rows (i, i+1, i+2)
StripTriangulation(n) == [t \in 1..(n - 2) |-> <<t - 1, t, t + 1>>]

\* rows (0, i, i+1)
FanTriangulation(n) == [t \in 1..(n - 2) |-> <<0, t, t + 1>>]

\* triangulation::delaunay(points): the arrays it may return
delaunay(pts) ==
    IF Len(pts) < dimension + 1 THEN { <<>> }
    ELSE { StripTriangulation(Len(pts)), FanTriangulation(Len(pts)) }

----------------------------------------------------------------------------
(* Pieces of the loop body *)

DistSq(p, q) ==
    (p[1] - q[1]) * (p[1] - q[1]) + (p[2] - q[2]) * (p[2] - q[2])

\* (a - b).square().rowwise().sum().maxCoeff(), for arrays with rows
MaxDisplacementSq(a, b) ==
    LET ds == { DistSq(a[i], b[i]) : i \in 1..Len(a) }
    IN  CHOOSE m \in ds : \A d \in ds : d <= m

\* a variant with >= in place of >
RetriangulationNeededInclusive(pts, buffer, h0) ==
    IF Len(pts) = 0 THEN {TRUE, FALSE}
    ELSE { MaxDisplacementSq(pts, buffer) * retriangulationThresholdInverse
             * retriangulationThresholdInverse >= h0 * h0 }

\* the retriangulation test, as the set of its outcomes: maxCoeff of an
\* array without rows is undefined, so both outcomes are possible then
RetriangulationNeeded(pts, buffer, h0) ==
    IF Len(pts) = 0 THEN {TRUE, FALSE}
    ELSE { MaxDisplacementSq(pts, buffer) * retriangulationThresholdInverse
             * retriangulationThresholdInverse > h0 * h0 }

\* a variant that stops at the retriangulation threshold
MovementBelowThresholdCoarse(pts, buffer, h0) ==
    IF Len(pts) = 0 THEN {TRUE, FALSE}
    ELSE { MaxDisplacementSq(pts, buffer) * retriangulationThresholdInverse
             * retriangulationThresholdInverse <= h0 * h0 }

\* the stop test, as the set of its outcomes
MovementBelowThreshold(pts, buffer, h0) ==
    IF Len(pts) = 0 THEN {TRUE, FALSE}
    ELSE { MaxDisplacementSq(pts, buffer) * pointsMovementThresholdInverse
             * pointsMovementThresholdInverse < h0 * h0 }

\* dimension + 1 times the mean of the vertices of a simplex
CircumcenterSum(pts, simplex) ==
    [dim \in 1..dimension |->
        pts[simplex[1] + 1][dim] + pts[simplex[2] + 1][dim]
          + pts[simplex[3] + 1][dim]]

\* selectMaskedArrayElements with the mask
\* distanceFunction(circumcenter) < -geometryEvaluationThreshold * h0
RejectOutside(f, h0, pts, tri) ==
    SelectSeq(tri, LAMBDA simplex :
        DistanceScaled(f, CircumcenterSum(pts, simplex), dimension + 1)
            * geometryEvaluationThresholdInverse < -(dimension + 1) * h0)

\* a variant that starts the buffer at the current points
InitialCriterionBufferCopy(pts) == pts

\* ArrayXXd::Constant(points.rows(), points.cols(), INFINITY)
InitialCriterionBuffer(pts) ==
    [i \in 1..Len(pts) |-> [dim \in 1..dimension |-> INFINITY]]

RECURSIVE GCD(_, _)
GCD(a, b) == IF b = 0 THEN a ELSE GCD(b, a % b)

\* edgeVector.row(edge)
EdgeVector(pts, bar) ==
    [dim \in 1..dimension |-> pts[bar[1] + 1][dim] - pts[bar[2] + 1][dim]]

\* edgeLength.square()
LengthSq(v) == v[1] * v[1] + v[2] * v[2]

\* the direction of v as the shortest integer vector, when its coordinates
\* are -1, 0 or 1; no push otherwise
UnitPush(v) ==
    LET g == GCD(Abs(v[1]), Abs(v[2]))
    IN  IF g = 0 THEN <<0, 0>>
        ELSE IF Abs(v[1] \div g) <= 1 /\ Abs(v[2] \div g) <= 1
             THEN <<v[1] \div g, v[2] \div g>>
             ELSE <<0, 0>>

\* the arrays deltaT * forceVector may be: row(edge) is the edge vector
\* times deltaT * max((desired - length) / length, 0), so it vanishes on the
\* edges longer than desired and points along the edge vector on the others.
\* The size field decides which edges are short; here the edges up to some
\* length are, and each of them pushes one unit along its direction.
ForceArrays(pts, edges) ==
    LET lengths == { LengthSq(EdgeVector(pts, edges[k])) : k \in 1..Len(edges) }
    IN  { [k \in 1..Len(edges) |->
              IF LengthSq(EdgeVector(pts, edges[k])) <= cutoff
              THEN UnitPush(EdgeVector(pts, edges[k]))
              ELSE <<0, 0>>] : cutoff \in {0} \cup lengths }

\* one pass of the move loop: += on the first endpoint, -= on the second,
\* each only when its index is >= fixedPoints.rows()
MoveRows(pts, bar, push, fixedRows) ==
    [i \in 1..Len(pts) |->
        [dim \in 1..dimension |->
            pts[i][dim]
              + (IF bar[1] = i - 1 /\ bar[1] >= fixedRows
                 THEN push[dim] ELSE 0)
              - (IF bar[2] = i - 1 /\ bar[2] >= fixedRows
                 THEN push[dim] ELSE 0)]]

RECURSIVE MoveLoop(_, _, _, _, _)
\* the move loop over the edges, from edge k on
MoveLoop(pts, edges, force, fixedRows, k) ==
    IF k > Len(edges) THEN pts
    ELSE MoveLoop(MoveRows(pts, edges[k], force[k], fixedRows),
                  edges, force, fixedRows, k + 1)

----------------------------------------------------------------------------
(* project_points_to_function *)

\* gradient(point, dim): the forward difference quotient
Gradient(f, p) ==
    [dim \in 1..dimension |->
        DistanceScaled(f,
            [d \in 1..dimension |->
                finiteDifferenceInverse * p[d] + (IF d = dim THEN 1 ELSE 0)],
            finiteDifferenceInverse)
          - finiteDifferenceInverse * Distance(f, p)]

\* points->row(point) -= distance * gradient / gradient.square().sum()
ProjectedRow(f, p) ==
    LET g  == Gradient(f, p)
        gg == g[1] * g[1] + g[2] * g[2]
    IN  [dim \in 1..dimension |-> p[dim] - ((Distance(f, p) * g[dim]) \div gg)]

\* a variant without the test for points outside
ProjectedPointsAll(f, pts) ==
    [i \in 1..Len(pts) |->
        IF Distance(f, pts[i]) # 0 THEN ProjectedRow(f, pts[i]) ELSE pts[i]]

\* the point array after the call: the distances are evaluated first, then
\* each row with distance > 0 is moved once
ProjectedPoints(f, pts) ==
    [i \in 1..Len(pts) |->
        IF Distance(f, pts[i]) > 0 THEN ProjectedRow(f, pts[i]) ELSE pts[i]]

----------------------------------------------------------------------------
(* The extraction run: a simplex array goes through find_unique_bars and   *)
(* then, with a node array, through boundEdges.                            *)

\* node arrays handed to boundEdges
NodeArrays == { << <<0, 0>>, <<10, 0>>, <<0, 10>>, <<5, -10>> >> }

\* simplex rows over n points: dimension + 1 distinct valid indices; a row
\* and its reversal pair the same vertices, so one of the two is drawn
SimplexRows(n) ==
    { r \in [1..(dimension + 1) -> 0..(n - 1)] :
        /\ \A i, j \in 1..(dimension + 1) : i # j => r[i] # r[j]
        /\ r[1] < r[dimension + 1] }

RECURSIVE SimplexArrays(_, _)
\* simplex arrays of at most m rows over n points
SimplexArrays(n, m) ==
    IF m = 0 THEN { <<>> }
    ELSE LET shorter == SimplexArrays(n, m - 1)
         IN  shorter \cup
             { Append(s, r) : s \in { x \in shorter : Len(x) = m - 1 },
                              r \in SimplexRows(n) }

RelaxIdle ==
    /\ pc = "idle"
    /\ distanceFunction = <<>>
    /\ initialPointDistance = 0
    /\ boundingBox = <<>>
    /\ fixedPoints = <<>>
    /\ points = <<>>
    /\ triangulation = <<>>
    /\ edgeIndices = <<>>
    /\ retriangulationCriterionBuffer = <<>>
    /\ stopCriterionBuffer = <<>>
    /\ step = 0
    /\ exit = "none"
    /\ result = <<>>

ExtractInit ==
    /\ bpc = "input"
    /\ nodes \in NodeArrays
    /\ simplices \in SimplexArrays(Len(nodes), MaxSimplices)
    /\ bar_indices = <<>>
    /\ triangulationEdgeIndices = <<>>
    /\ boundaryEdges = <<>>
    /\ boundary = <<>>
    /\ RelaxIdle

\* find_unique_bars(points, triangulation)
FindUniqueBars ==
    /\ bpc = "input"
    /\ bar_indices' = find_unique_bars(simplices)
    /\ bpc' = "bars"
    /\ UNCHANGED <<nodes, simplices, triangulationEdgeIndices,
                   boundaryEdges, boundary, relaxVars>>

\* boundEdges(nodes, triangulation, externalEdges): externalEdges is empty
\* or the edge array the caller already holds
BoundEdges ==
    /\ bpc = "bars"
    /\ \E externalEdges \in { <<>>, bar_indices } :
         LET edges == IF Len(externalEdges) = 0
                      THEN find_unique_bars(simplices)
                      ELSE externalEdges
             ei    == getTriangulationEdgeIndices(simplices, edges)
             vec   == BoundaryLoop(ei, 0, {}, <<>>)
         IN  /\ triangulationEdgeIndices' = ei
             /\ boundaryEdges' = vec
             /\ boundary' = OrientedBoundary(nodes, simplices, edges, ei, vec)
    /\ bpc' = "bound"
    /\ UNCHANGED <<nodes, simplices, bar_indices, relaxVars>>

ExtractNext == FindUniqueBars \/ BoundEdges

ExtractSpec == ExtractInit /\ [][ExtractNext]_vars

----------------------------------------------------------------------------
(* distmesh::distmesh *)

\* the initial point distances of the runs
InitialPointDistances == { 10 }

\* the bounding boxes of the runs: one with extent in both dimensions, one
\* with zero extent in the second
BoundingBoxes ==
    { << <<0, 10>>, <<0, 10>> >>,
      << <<0, 10>>, <<0, 0>> >> }

\* the fixed-point arrays of the runs: none, one outside the half plane
\* x <= 10, one inside every field with a region
FixedPointArrays ==
    { <<>>, << <<16, 5>> >>, << <<5, 5>> >> }

ExtractIdle ==
    /\ bpc = "idle"
    /\ nodes = <<>>
    /\ simplices = <<>>
    /\ bar_indices = <<>>
    /\ triangulationEdgeIndices = <<>>
    /\ boundaryEdges = <<>>
    /\ boundary = <<>>

Init ==
    /\ pc = "start"
    /\ distanceFunction \in DistanceFields
    /\ initialPointDistance \in InitialPointDistances
    /\ boundingBox \in BoundingBoxes
    /\ fixedPoints \in FixedPointArrays
    /\ points = <<>>
    /\ triangulation = <<>>
    /\ edgeIndices = <<>>
    /\ retriangulationCriterionBuffer = <<>>
    /\ stopCriterionBuffer = <<>>
    /\ step = 0
    /\ exit = "none"
    /\ result = <<>>
    /\ ExtractIdle

\* points = utils::createInitialPoints(...)
CreateInitialPoints ==
    /\ pc = "start"
    /\ points' \in createInitialPoints(distanceFunction, initialPointDistance,
                                       boundingBox, fixedPoints)
    /\ pc' = "triangulate"
    /\ UNCHANGED <<distanceFunction, initialPointDistance, boundingBox,
                   fixedPoints, triangulation, edgeIndices,
                   retriangulationCriterionBuffer, stopCriterionBuffer,
                   step, exit, result, extractVars>>

\* the initial triangulation, the two buffers and the loop head
InitialTriangulation ==
    /\ pc = "triangulate"
    /\ triangulation' \in delaunay(points)
    /\ retriangulationCriterionBuffer' = InitialCriterionBuffer(points)
    /\ stopCriterionBuffer' =
           [i \in 1..Len(points) |-> [dim \in 1..dimension |-> 0]]
    /\ edgeIndices' = <<>>
    /\ step' = 0
    /\ pc' = IF 0 < maxSteps THEN "retriangulate" ELSE "return"
    /\ exit' = IF 0 < maxSteps THEN exit ELSE "cap"
    /\ UNCHANGED <<distanceFunction, initialPointDistance, boundingBox,
                   fixedPoints, points, result, extractVars>>

\* the retriangulation block of the loop body
Retriangulate ==
    /\ pc = "retriangulate"
    /\ \E fires \in RetriangulationNeeded(points,
                        retriangulationCriterionBuffer, initialPointDistance) :
         IF fires
         THEN /\ \E raw \in delaunay(points) :
                   triangulation' = RejectOutside(distanceFunction,
                                        initialPointDistance, points, raw)
              /\ edgeIndices' = find_unique_bars(triangulation')
              /\ retriangulationCriterionBuffer' = points
         ELSE UNCHANGED <<triangulation, edgeIndices,
                          retriangulationCriterionBuffer>>
    /\ pc' = "move"
    /\ UNCHANGED <<distanceFunction, initialPointDistance, boundingBox,
                   fixedPoints, points, stopCriterionBuffer, step, exit,
                   result, extractVars>>

\* the force computation, the stop buffer and the move loop
MovePoints ==
    /\ pc = "move"
    /\ \E force \in ForceArrays(points, edgeIndices) :
         points' = MoveLoop(points, edgeIndices, force, Len(fixedPoints), 1)
    /\ stopCriterionBuffer' = points
    /\ pc' = "project"
    /\ UNCHANGED <<distanceFunction, initialPointDistance, boundingBox,
                   fixedPoints, triangulation, edgeIndices,
                   retriangulationCriterionBuffer, step, exit, result,
                   extractVars>>

\* utils::projectPointsToBoundary(distanceFunction, h0, points)
ProjectPoints ==
    /\ pc = "project"
    /\ points' = ProjectedPoints(distanceFunction, points)
    /\ pc' = "stop"
    /\ UNCHANGED <<distanceFunction, initialPointDistance, boundingBox,
                   fixedPoints, triangulation, edgeIndices,
                   retriangulationCriterionBuffer, stopCriterionBuffer,
                   step, exit, result, extractVars>>

\* the stop test, and ++step with the loop condition when it fails
StopCriterion ==
    /\ pc = "stop"
    /\ \E below \in MovementBelowThreshold(points, stopCriterionBuffer,
                                            initialPointDistance) :
         IF below
         THEN /\ exit' = "break"
              /\ pc' = "return"
              /\ step' = step
         ELSE /\ step' = step + 1
              /\ pc' = IF step + 1 < maxSteps THEN "retriangulate"
                       ELSE "return"
              /\ exit' = IF step + 1 < maxSteps THEN exit ELSE "cap"
    /\ UNCHANGED <<distanceFunction, initialPointDistance, boundingBox,
                   fixedPoints, points, triangulation, edgeIndices,
                   retriangulationCriterionBuffer, stopCriterionBuffer,
                   result, extractVars>>

\* return std::make_tuple(points, triangulation)
Return ==
    /\ pc = "return"
    /\ result' = <<points, triangulation>>
    /\ pc' = "done"
    /\ UNCHANGED <<distanceFunction, initialPointDistance, boundingBox,
                   fixedPoints, points, triangulation, edgeIndices,
                   retriangulationCriterionBuffer, stopCriterionBuffer,
                   step, exit, extractVars>>

Next ==
    \/ CreateInitialPoints
    \/ InitialTriangulation
    \/ Retriangulate
    \/ MovePoints
    \/ ProjectPoints
    \/ StopCriterion
    \/ Return

Spec == Init /\ [][Next]_vars

\* the function runs on one thread and every statement completes
FairSpec == Spec /\ WF_vars(Next)

\* no edge of the edge array joins two points at the same place when the
\* forces are computed (the force of such an edge is not a number)
NoZeroLengthEdge ==
    pc = "move" =>
        \A k \in 1..Len(edgeIndices) :
            EdgeVector(points, edgeIndices[k]) # <<0, 0>>

----------------------------------------------------------------------------
(* Properties of distmesh::distmesh *)

InLoop == pc \in {"retriangulate", "move", "project", "stop"}

\* C1: the first fixedPoints.rows() rows of points are the same before and
\* after every step of the loop body (integration and projection), for any
\* distance field.
C1_FixedPointsNeverMove ==
    [][InLoop => \A i \in 1..Len(fixedPoints) : points'[i] = points[i]]_vars

\* the move loop alone leaves the fixed rows as they are
MoveLoopSkipsFixedPoints ==
    [][pc = "move" =>
          \A i \in 1..Len(fixedPoints) : points'[i] = points[i]]_vars

\* every row moved less than pointsMovementThreshold * h0 in this iteration
AllBelowMovementThreshold ==
    \A i \in 1..Len(points) :
        DistSq(points[i], stopCriterionBuffer[i])
          * pointsMovementThresholdInverse * pointsMovementThresholdInverse
        < initialPointDistance * initialPointDistance

\* C5: the loop always terminates; with points in the array it is left at
\* the stop test exactly when every row moved less than
\* pointsMovementThreshold * h0 in that iteration or the iteration was the
\* last of maxSteps; a break leaves step below maxSteps, the cap leaves it
\* at maxSteps, and the current points and simplices are returned.
C5_LoopTerminates ==
    /\ <>(pc = "done")
    /\ [][(pc = "stop" /\ Len(points) > 0) =>
             ((pc' = "return") <=>
                  (AllBelowMovementThreshold \/ step + 1 = maxSteps))]_vars
    /\ [][(pc = "stop" /\ Len(points) > 0) =>
             ((exit' = "break") <=> AllBelowMovementThreshold)]_vars
    /\ [](pc = "done" =>
             /\ result = <<points, triangulation>>
             /\ exit \in {"break", "cap"}
             /\ exit = "break" => step < maxSteps
             /\ exit = "cap" => step = maxSteps)

\* a run over a mesh with edges has ended at the cap
C5_Witness ==
    /\ pc = "done"
    /\ exit = "cap"
    /\ step = maxSteps
    /\ Len(edgeIndices) > 0

\* a run over a mesh with edges has ended at the stop test
BreakReached ==
    /\ pc = "done"
    /\ exit = "break"
    /\ step > 0
    /\ Len(edgeIndices) > 0

\* C6: the returned value carries a status next to the mesh that tells a
\* run that converged from one that reached the cap.
C6_NonConvergenceReported ==
    pc = "done" =>
        /\ Len(result) = 3
        /\ (result[3] = "converged") <=> (exit = "break")

\* the bounding box has no extent in some dimension
InvalidBoundingBox ==
    \E dim \in 1..dimension : boundingBox[dim][2] - boundingBox[dim][1] <= 0

\* sampling has run and left fewer than D + 1 points
DegenerateSampling == pc # "start" /\ Len(points) < dimension + 1

\* C7: with a bounding box without extent, or fewer than D + 1 points after
\* sampling, the run goes no further than sampling and returns no mesh.
C7_FailsFast ==
    (InvalidBoundingBox \/ DegenerateSampling) =>
        /\ pc \in {"start", "triangulate"}
        /\ result = <<>>

\* the row p after one step p -= d * grad / |grad|^2 of a field that has
\* slope `slope` along its axis at p
NewtonStep(f, p, slope) ==
    [dim \in 1..dimension |->
        IF dim = f.axis
        THEN p[dim] - ((f.sign * Distance(f, p)) \div slope)
        ELSE p[dim]]

\* the slope of the field just beyond p, in the direction of growing
\* coordinate
ForwardSlope(f, p) ==
    LET t == f.sign * p[f.axis] - f.offset
    IN  IF f.kind = "plane" THEN 1
        ELSE IF f.sign = 1 THEN (IF t >= 2 THEN 2 ELSE 1)
        ELSE (IF t > 2 THEN 2 ELSE 1)

\* C8: the projection keeps the number and order of the rows, leaves every
\* row with d <= 0 as it is and moves every row with d > 0 by one step
\* p -= d * grad / |grad|^2.
C8_ProjectionFrame ==
    [][pc = "project" =>
          /\ Len(points') = Len(points)
          /\ \A i \in 1..Len(points) :
                IF Distance(distanceFunction, points[i]) <= 0
                THEN points'[i] = points[i]
                ELSE points'[i] =
                       NewtonStep(distanceFunction, points[i],
                                  ForwardSlope(distanceFunction, points[i]))
      ]_vars

\* the projection has moved a row once and left it outside, next to rows
\* with d <= 0 that the iteration has not moved
C8_Witness ==
    /\ pc = "stop"
    /\ \E i \in 1..Len(points) :
          /\ Distance(distanceFunction, points[i]) > 0
          /\ points[i] # stopCriterionBuffer[i]
    /\ \E i \in 1..Len(points) :
          /\ Distance(distanceFunction, points[i]) <= 0
          /\ points[i] = stopCriterionBuffer[i]

\* some row is further than retriangulationThreshold * h0 from the snapshot
ExceedsRetriangulationThreshold ==
    \E i \in 1..Len(points) :
        DistSq(points[i], retriangulationCriterionBuffer[i])
          * retriangulationThresholdInverse * retriangulationThresholdInverse
        > initialPointDistance * initialPointDistance

\* the centroid of the simplex is further inside than
\* geometryEvaluationThreshold * h0
CentroidInside(simplex) ==
    LET sum == [dim \in 1..dimension |->
                   points[simplex[1] + 1][dim] + points[simplex[2] + 1][dim]
                     + points[simplex[3] + 1][dim]]
    IN  DistanceScaled(distanceFunction, sum, 3)
          * geometryEvaluationThresholdInverse < -3 * initialPointDistance

\* C9: within an iteration the simplex array, the edge array and the
\* snapshot change only in the retriangulation block and only when some row
\* is further than retriangulationThreshold * h0 from the snapshot; then the
\* snapshot becomes the current points, every simplex kept has its centroid
\* at distance < -geometryEvaluationThreshold * h0, and the edge array is
\* rebuilt from the kept simplices.
C9_RetriangulationIff ==
    [][InLoop =>
          IF pc = "retriangulate" /\ ExceedsRetriangulationThreshold
          THEN /\ retriangulationCriterionBuffer' = points
               /\ \A t \in 1..Len(triangulation') :
                     CentroidInside(triangulation'[t])
               /\ { Unordered(edgeIndices'[k]) : k \in 1..Len(edgeIndices') }
                     = SimplexEdges(triangulation')
          ELSE UNCHANGED <<triangulation, edgeIndices,
                           retriangulationCriterionBuffer>>
      ]_vars

\* a later iteration has passed the test without retriangulating although
\* rows have moved since the snapshot
C9_Witness ==
    /\ pc = "move"
    /\ step >= 1
    /\ retriangulationCriterionBuffer # points
    /\ Len(triangulation) > 0

\* a retriangulation has rejected a simplex
SimplexRejected ==
    /\ pc = "move"
    /\ Len(points) >= dimension + 1
    /\ Len(triangulation) < Len(points) - dimension

\* C10: the first iteration retriangulates, and at every force computation
\* and afterwards up to the return the edge array holds exactly the edges of
\* the simplex array, each once, and all indices are rows of points.
C10_EdgesMatchSimplices ==
    /\ (pc = "move" /\ step = 0 /\ Len(points) > 0) =>
           retriangulationCriterionBuffer = points
    /\ pc \in {"move", "project", "stop", "return", "done"} =>
           /\ { Unordered(edgeIndices[k]) : k \in 1..Len(edgeIndices) }
                 = SimplexEdges(triangulation)
           /\ \A j, k \in 1..Len(edgeIndices) :
                 j # k =>
                   Unordered(edgeIndices[j]) # Unordered(edgeIndices[k])
           /\ \A k \in 1..Len(edgeIndices) :
                 Unordered(edgeIndices[k]) \subseteq 0..(Len(points) - 1)
           /\ \A t \in 1..Len(triangulation) :
                 \A i \in 1..(dimension + 1) :
                     triangulation[t][i] \in 0..(Len(points) - 1)

\* a later iteration has retriangulated a mesh of two simplices or more
C10_Witness ==
    /\ pc = "move"
    /\ step >= 1
    /\ retriangulationCriterionBuffer = points
    /\ Len(triangulation) >= 2
    /\ Len(edgeIndices) >= 5

----------------------------------------------------------------------------
(* Properties of the extraction run *)

\* C2: the edge array of find_unique_bars holds no unordered pair twice,
\* holds every pair implied by a simplex row exactly once and nothing else,
\* stores every row in one order, and for [[0,1,2],[1,2,3]] is the 5 edges
\* {0,1}, {1,2}, {0,2}, {2,3}, {1,3}.
C2_UniqueBars ==
    bpc # "input" =>
        /\ \A j, k \in 1..Len(bar_indices) :
               j # k => Unordered(bar_indices[j]) # Unordered(bar_indices[k])
        /\ \A s \in SimplexEdges(simplices) :
               Cardinality({ k \in 1..Len(bar_indices) :
                               Unordered(bar_indices[k]) = s }) = 1
        /\ \A k \in 1..Len(bar_indices) :
               Unordered(bar_indices[k]) \in SimplexEdges(simplices)
        /\ \/ \A k \in 1..Len(bar_indices) :
                  bar_indices[k][1] >= bar_indices[k][2]
           \/ \A k \in 1..Len(bar_indices) :
                  bar_indices[k][1] <= bar_indices[k][2]
        /\ simplices = << <<0, 1, 2>>, <<1, 2, 3>> >> =>
               /\ Len(bar_indices) = 5
               /\ { Unordered(bar_indices[k]) : k \in 1..5 } =
                      { {0, 1}, {1, 2}, {0, 2}, {2, 3}, {1, 3} }

\* two triangles sharing the edge {1,2} have gone through find_unique_bars
C2_Witness ==
    /\ bpc = "bars"
    /\ simplices = << <<0, 1, 2>>, <<1, 2, 3>> >>
    /\ Len(bar_indices) = 5

\* number of simplex-edge incidences of the edge row e
Incidences(ei, e) ==
    Cardinality({ c \in { <<t, i>> : t \in 1..Len(ei),
                                      i \in 1..(dimension + 1) } :
                    ei[c[1]][c[2]] = e })

\* C3: the unsigned entries of the array returned by boundEdges are, each
\* once, exactly the edge rows with one simplex-edge incidence; a single
\* simplex returns all of its edges.
C3_BoundaryIsOnceIncident ==
    bpc = "bound" =>
        LET once == { e \in 0..(Len(bar_indices) - 1) :
                        Incidences(triangulationEdgeIndices, e) = 1 }
        IN  /\ { Abs(boundary[k]) : k \in 1..Len(boundary) } = once
            /\ Len(boundary) = Cardinality(once)
            /\ Len(simplices) = 1 => Len(boundary) = dimension + 1

\* boundEdges has run on an array where one edge lies in three simplices
\* and another in one
C3_Witness ==
    /\ bpc = "bound"
    /\ \E e \in 0..(Len(bar_indices) - 1) :
          Incidences(triangulationEdgeIndices, e) >= 3
    /\ Len(boundary) > 0

\* the cross product of the edge vector of row e and the vector from its
\* second endpoint to the remaining vertex of its simplex is negative
EdgeReversed(e) ==
    LET t == CHOOSE u \in 1..Len(simplices) :
                 \E i \in 1..(dimension + 1) :
                     triangulationEdgeIndices[u][i] = e
        a == nodes[bar_indices[e + 1][1] + 1]
        b == nodes[bar_indices[e + 1][2] + 1]
        c == nodes[(CHOOSE v \in { simplices[t][i] :
                                      i \in 1..(dimension + 1) } :
                       v \notin Unordered(bar_indices[e + 1])) + 1]
    IN  (b[1] - a[1]) * (c[2] - b[2]) - (b[2] - a[2]) * (c[1] - b[1]) < 0

\* C4: in 2-D every entry of the returned array is flagged as reversed
\* (negative) exactly when the cross product for its edge is negative, for
\* every edge row, row 0 included.
C4_SignEncodesOrientation ==
    bpc = "bound" =>
        \A k \in 1..Len(boundary) :
            (boundary[k] < 0) <=> EdgeReversed(boundaryEdges[k])

\* the same statement for the edge rows other than 0
SignEncodesOrientationAboveZero ==
    bpc = "bound" =>
        \A k \in 1..Len(boundary) :
            boundaryEdges[k] # 0 =>
                ((boundary[k] < 0) <=> EdgeReversed(boundaryEdges[k]))

====
